---- MODULE Spec2Model ----
(***************************************************************************)
(* Relative-position multi-head self-attention (model/attention.py):       *)
(* RelativeMultiHeadAttention and MultiHeadedSelfAttentionModule.          *)
(*                                                                         *)
(* Tensors are modelled by their shape (a sequence of dimensions) and,     *)
(* where values matter, by their elements in row-major order.  Real        *)
(* numbers are modelled on the integer grid; every operation whose real    *)
(* result is not an integer rounds toward minus infinity (finite           *)
(* precision).  Softmax weights are kept as exact fractions num/den.       *)
(***************************************************************************)
EXTENDS Integers, Sequences, FiniteSets, TLC

VARIABLES
    module,   \* the constructed module object (constructed = FALSE: none)
    raised,   \* the exception the last operation ended in, or "none"
    args,     \* the arguments of the last call
    ret,      \* the shape of the tensor the last call returned
    trace,    \* the intermediate tensors/shapes of the last forward
    params,   \* learned parameters (nn.Parameter / Linear / LayerNorm)
    env,      \* the caller's tensors: q, k, v, pos_embedding, mask
    rng,      \* state (offset) of the dropout random number generator
    out,      \* the tensor the last forward returned
    calls     \* history of the forward calls made so far

vars == <<module, raised, args, ret, trace, params, env, rng, out, calls>>

-----------------------------------------------------------------------------
(* Bounds *)

MaxDim == 12       \* constructor arguments range over 1..MaxDim
MaxWidth == 2      \* d_model of the modules used for shape checking
MaxBatch == 2      \* batch sizes 1..MaxBatch
MaxTime == 2       \* time lengths 1..MaxTime
ShiftBatch == 2    \* _relative_shift: batch sizes
ShiftHeads == 2    \* _relative_shift: heads
ShiftLen == 4      \* _relative_shift: seq_length1, seq_length2
SoftHeads == 2     \* masked softmax: heads
SoftLen == 2       \* masked softmax: key positions per row
NumBatch == 1      \* forward with values: batch sizes
NumTime == 2       \* forward with values: time lengths
MaxCalls == 2      \* forward calls made on one module

-----------------------------------------------------------------------------
(* Generic helpers *)

RECURSIVE Prod(_)
Prod(s) == IF s = << >> THEN 1 ELSE Head(s) * Prod(Tail(s))

\* Tensor.numel()
Numel(shape) == Prod(shape)

Max2(a, b) == IF a >= b THEN a ELSE b

Last(s) == s[Len(s)]

-----------------------------------------------------------------------------
(* RelativeMultiHeadAttention.__init__ *)

NoModule ==
    [constructed |-> FALSE, d_model |-> 0, n_heads |-> 0, d_head |-> 0,
     sqrt_dim |-> 0, u_bias |-> << >>, v_bias |-> << >>,
     dropout_p |-> 0, training |-> FALSE]

AssertAlwaysPasses(d_model, n_heads) == TRUE

\* assert d_model % n_heads == 0
AssertDivisible(d_model, n_heads) == d_model % n_heads = 0

\* int(d_model / n_heads): true division to a double, truncated.  The
\* double quotient of two integers is correctly rounded, so for operands
\* below 2^53 it truncates to the integer quotient.
DHead(d_model, n_heads) == d_model \div n_heads

\* math.sqrt(d_model) on the integer grid (exact for perfect squares)
SqrtDim(d_model) ==
    CHOOSE r \in 0..d_model : r * r <= d_model /\ d_model < (r + 1) * (r + 1)

\* dropout_p=0.1, in tenths
DefaultDropoutTenths == 1

\* The attributes __init__ sets; u_bias and v_bias by their shape, the
\* dropout probability in tenths; a new nn.Module is in training mode
NewModule(d_model, n_heads) ==
    [constructed |-> TRUE,
     d_model |-> d_model,
     n_heads |-> n_heads,
     d_head |-> DHead(d_model, n_heads),
     sqrt_dim |-> SqrtDim(d_model),
     u_bias |-> <<n_heads, DHead(d_model, n_heads)>>,
     v_bias |-> <<n_heads, DHead(d_model, n_heads)>>,
     dropout_p |-> DefaultDropoutTenths,
     training |-> TRUE]

NoArgs == [kind |-> "none"]

Idle ==
    /\ module = NoModule
    /\ raised = "none"
    /\ args = NoArgs
    /\ ret = << >>
    /\ trace = << >>
    /\ params = << >>
    /\ env = << >>
    /\ rng = 0
    /\ out = << >>
    /\ calls = << >>

InitCtor == Idle

\* RelativeMultiHeadAttention(d_model, n_heads)
Construct(d_model, n_heads) ==
    /\ args = NoArgs
    /\ args' = [kind |-> "init", d_model |-> d_model, n_heads |-> n_heads]
    /\ IF AssertDivisible(d_model, n_heads)
       THEN /\ module' = NewModule(d_model, n_heads)
            /\ raised' = "none"
       ELSE /\ module' = NoModule
            /\ raised' = "AssertionError"
    /\ UNCHANGED <<ret, trace, params, env, rng, out, calls>>

NextCtor == \E d_model \in 1..MaxDim, n_heads \in 1..MaxDim : Construct(d_model, n_heads)

SpecCtor == InitCtor /\ [][NextCtor]_vars

\* C1: construction succeeds exactly for the positive pairs with
\* d_model % n_heads == 0, fails with the assertion's error (and produces no
\* module) for every other pair, and after every successful construction
\* n_heads * d_head == d_model.
C1_Construction ==
    args.kind = "init" =>
        /\ (args.d_model % args.n_heads = 0) =>
               /\ module.constructed /\ raised = "none"
               /\ module.d_model = args.d_model /\ module.n_heads = args.n_heads
               /\ module.n_heads * module.d_head = module.d_model
        /\ (args.d_model % args.n_heads # 0) =>
               /\ ~module.constructed /\ raised = "AssertionError"

C1_Witness ==
    /\ args.kind = "init" /\ module.constructed
    /\ module.n_heads > 1 /\ module.d_head > 1

-----------------------------------------------------------------------------
(* Tensors with values: [shape, data], data in row-major (logical) order,   *)
(* flat offsets 0-based as in the tensor engine, sequences 1-based.         *)

\* A freshly allocated tensor.  base names the storage a tensor aliases:
\* "fresh" for memory the current call allocated, else the caller's tensor
\* or the parameter it is a view of.
Tensor(shape, data) == [shape |-> shape, data |-> data \o << >>, base |-> "fresh"]

\* stride of axis k (1-based) of a contiguous tensor of this shape
Stride(shape, k) == Prod(SubSeq(shape, k + 1, Len(shape)))

\* coordinate along axis k of the element at flat offset n
Coord(n, shape, k) == (n \div Stride(shape, k)) % shape[k]

\* t[i0, i1, i2, i3]
At4(t, i0, i1, i2, i3) ==
    t.data[1 + i0 * Stride(t.shape, 1) + i1 * Stride(t.shape, 2)
             + i2 * Stride(t.shape, 3) + i3]

NewOnes(shape) == Tensor(shape, [n \in 1..Numel(shape) |-> 1])

\* Tensor.new_zeros(*shape)
NewZeros(shape) == Tensor(shape, [n \in 1..Numel(shape) |-> 0])

\* torch.cat([a, b], dim=-1) of two 4-d tensors
CatLast(a, b) ==
    LET r == Len(a.shape)
        wa == a.shape[r]
        wb == b.shape[r]
        shape == [a.shape EXCEPT ![r] = wa + wb]
    IN  Tensor(shape,
               [n \in 1..Numel(shape) |->
                   LET row == (n - 1) \div (wa + wb)
                       col == (n - 1) % (wa + wb)
                   IN  IF col < wa THEN a.data[1 + row * wa + col]
                                   ELSE b.data[1 + row * wb + (col - wa)]])

\* Tensor.view(*shape) / Tensor.view_as(other): same elements, same order,
\* same storage
View(t, shape) == [shape |-> shape, data |-> t.data, base |-> t.base]

DropLastRow(t) ==
    LET shape == [t.shape EXCEPT ![3] = t.shape[3] - 1]
    IN  [Tensor(shape,
               [n \in 1..Numel(shape) |->
                   At4(t, Coord(n - 1, shape, 1), Coord(n - 1, shape, 2),
                          Coord(n - 1, shape, 3), Coord(n - 1, shape, 4))])
         EXCEPT !.base = t.base]

\* t[:, :, 1:] of a 4-d tensor (a view of t's storage)
DropFirstRow(t) ==
    LET shape == [t.shape EXCEPT ![3] = t.shape[3] - 1]
    IN  [Tensor(shape,
               [n \in 1..Numel(shape) |->
                   At4(t, Coord(n - 1, shape, 1), Coord(n - 1, shape, 2),
                          Coord(n - 1, shape, 3) + 1, Coord(n - 1, shape, 4))])
         EXCEPT !.base = t.base]

-----------------------------------------------------------------------------
(* RelativeMultiHeadAttention._relative_shift *)

RelativeShift(pos_score) ==
    LET batch_size == pos_score.shape[1]
        n_heads == pos_score.shape[2]
        seq_length1 == pos_score.shape[3]
        seq_length2 == pos_score.shape[4]
        zeros == NewZeros(<<batch_size, n_heads, seq_length1, 1>>)
        padded_pos_score == CatLast(zeros, pos_score)
        viewed == View(padded_pos_score,
                       <<batch_size, n_heads, seq_length2 + 1, seq_length1>>)
    IN  View(DropFirstRow(viewed), pos_score.shape)

\* Position-score tensors handed to _relative_shift: all zero, or every
\* element labelled by its own (nonzero) flat position, positive or negative.
ShiftInput(shape, fill) ==
    Tensor(shape, [n \in 1..Numel(shape) |-> fill * n])

ShiftShapes ==
    {<<b, h, t1, t2>> : b \in 1..ShiftBatch, h \in 1..ShiftHeads,
                        t1 \in 1..ShiftLen, t2 \in 1..ShiftLen}

InitShift == Idle

CallRelativeShift(shape, fill) ==
    /\ args = NoArgs
    /\ args' = [kind |-> "shift", pos_score |-> ShiftInput(shape, fill)]
    /\ out' = RelativeShift(ShiftInput(shape, fill))
    /\ UNCHANGED <<module, raised, ret, trace, params, env, rng, calls>>

NextShift == \E shape \in ShiftShapes, fill \in {-1, 0, 1} : CallRelativeShift(shape, fill)

SpecShift == InitShift /\ [][NextShift]_vars

\* number of elements of one (batch, head) slice
SliceSize(shape) == shape[3] * shape[4]

\* C5: _relative_shift preserves the shape, maps an all-zero tensor to an
\* all-zero tensor, and every output element is 0 or a copy of an input
\* element of the same (batch, head) slice.
C5_PureReindexing ==
    args.kind = "shift" =>
        LET in == args.pos_score
            N == Numel(in.shape)
            sz == SliceSize(in.shape)
        IN  /\ out.shape = in.shape
            /\ Len(out.data) = N
            /\ (\A m \in 1..N : in.data[m] = 0) => (\A n \in 1..N : out.data[n] = 0)
            /\ \A n \in 1..N :
                   \/ out.data[n] = 0
                   \/ \E m \in 1..N :
                         /\ (m - 1) \div sz = (n - 1) \div sz
                         /\ out.data[n] = in.data[m]

C5_Witness ==
    /\ args.kind = "shift"
    /\ args.pos_score.shape = <<2, 2, 3, 2>>
    /\ args.pos_score.data[1] = 0
    /\ out.shape = <<2, 2, 3, 2>>

\* the slice with one zero column prepended
PaddedAt(in, b, h, r, c) == IF c = 0 THEN 0 ELSE At4(in, b, h, r, c - 1)

\* C8: out[i][j] = P[n div (T2+1)][n mod (T2+1)] with n = T1 + i*T2 + j and P
\* the slice with a zero column prepended; in the square case T1 = T2 = T:
\* out[i][j] = in[i][j + (T-1-i)] for j <= i, out[i][i+1] = 0, and
\* out[i][j] = in[i+1][j-i-2] for j >= i+2.
C8_RelativeOffsets ==
    args.kind = "shift" =>
        LET in == args.pos_score
            T1 == in.shape[3]
            T2 == in.shape[4]
        IN  \A b \in 0..(in.shape[1] - 1), h \in 0..(in.shape[2] - 1),
               i \in 0..(T1 - 1), j \in 0..(T2 - 1) :
                LET n == T1 + i * T2 + j
                IN  /\ At4(out, b, h, i, j) =
                           PaddedAt(in, b, h, n \div (T2 + 1), n % (T2 + 1))
                    /\ (T1 = T2 /\ j <= i) =>
                           At4(out, b, h, i, j) = At4(in, b, h, i, j + (T1 - 1 - i))
                    /\ (T1 = T2 /\ j = i + 1) => At4(out, b, h, i, j) = 0
                    /\ (T1 = T2 /\ j >= i + 2) =>
                           At4(out, b, h, i, j) = At4(in, b, h, i + 1, j - i - 2)

C8_Witness ==
    /\ args.kind = "shift"
    /\ args.pos_score.shape = <<1, 2, 4, 4>>
    /\ args.pos_score.data[1] = 1
    /\ At4(out, 0, 1, 1, 0) = At4(args.pos_score, 0, 1, 1, 2)
    /\ At4(out, 0, 1, 1, 2) = 0
    /\ At4(out, 0, 1, 1, 3) = At4(args.pos_score, 0, 1, 2, 0)

-----------------------------------------------------------------------------
(* Shape calculus of the tensor engine.  A shape is a sequence of positive  *)
(* dimensions; ShapeError is the result of an operation the engine rejects  *)
(* (it raises, and the error propagates through every later operation).    *)

ShapeError == <<-1>>

\* mask = None
NoMask == <<0>>

IsShape(s) == s # ShapeError

\* Linear(d_in, d_out) applied to a tensor of shape s
LinearShape(s, d_in, d_out) ==
    IF IsShape(s) /\ Len(s) >= 1 /\ Last(s) = d_in
    THEN [s EXCEPT ![Len(s)] = d_out]
    ELSE ShapeError

RECURSIVE ProdKnown(_)
ProdKnown(t) ==
    IF t = << >> THEN 1
    ELSE (IF Head(t) = -1 THEN 1 ELSE Head(t)) * ProdKnown(Tail(t))

ViewUncheckedShape(s, target) ==
    IF ~IsShape(s) THEN ShapeError
    ELSE [k \in 1..Len(target) |->
             IF target[k] = -1 THEN Max2(1, Numel(s) \div ProdKnown(target))
             ELSE target[k]]

\* Tensor.view(*target), at most one entry of target being -1
ViewShape(s, target) ==
    IF ~IsShape(s) THEN ShapeError
    ELSE IF \E k \in 1..Len(target) : target[k] = -1
         THEN IF Numel(s) % ProdKnown(target) = 0
              THEN [k \in 1..Len(target) |->
                       IF target[k] = -1 THEN Numel(s) \div ProdKnown(target)
                       ELSE target[k]]
              ELSE ShapeError
         ELSE IF Numel(s) = Numel(target) THEN target ELSE ShapeError

\* Tensor.permute(*perm), perm 0-based as in the source
PermuteShape(s, perm) ==
    IF IsShape(s) /\ Len(s) = Len(perm)
    THEN [k \in 1..Len(perm) |-> s[perm[k] + 1]]
    ELSE ShapeError

NoTransposeShape(s, d0, d1) == s

\* Tensor.transpose(d0, d1), axes 0-based
TransposeShape(s, d0, d1) ==
    IF IsShape(s) /\ d0 < Len(s) /\ d1 < Len(s)
    THEN [s EXCEPT ![d0 + 1] = s[d1 + 1], ![d1 + 1] = s[d0 + 1]]
    ELSE ShapeError

\* dimension k (1-based, counted from the left of the result of rank r) of a
\* shape aligned to the right; missing leading dimensions are 1
DimR(s, k, r) == IF k > r - Len(s) THEN s[k - (r - Len(s))] ELSE 1

\* broadcasting of two shapes (a + b, a masked by b)
BroadcastShape(a, b) ==
    IF ~IsShape(a) \/ ~IsShape(b) THEN ShapeError
    ELSE LET r == Max2(Len(a), Len(b))
         IN  IF \A k \in 1..r :
                    \/ DimR(a, k, r) = DimR(b, k, r)
                    \/ DimR(a, k, r) = 1
                    \/ DimR(b, k, r) = 1
             THEN [k \in 1..r |-> Max2(DimR(a, k, r), DimR(b, k, r))]
             ELSE ShapeError

\* torch.matmul of two tensors of rank >= 2: batched over the leading
\* (broadcast) dimensions, the inner dimensions must agree
MatmulShape(a, b) ==
    IF ~IsShape(a) \/ ~IsShape(b) \/ Len(a) < 2 \/ Len(b) < 2 THEN ShapeError
    ELSE LET batch == BroadcastShape(SubSeq(a, 1, Len(a) - 2), SubSeq(b, 1, Len(b) - 2))
         IN  IF IsShape(batch) /\ a[Len(a)] = b[Len(b) - 1]
             THEN batch \o <<a[Len(a) - 1], b[Len(b)]>>
             ELSE ShapeError

\* Tensor.unsqueeze(1)
Unsqueeze1Shape(s) ==
    IF IsShape(s) /\ Len(s) >= 1
    THEN <<s[1]>> \o <<1>> \o SubSeq(s, 2, Len(s))
    ELSE ShapeError

\* Tensor.masked_fill_(mask, value): in place, so the mask must broadcast
\* to the shape of the tensor written to
MaskedFillShape(s, mask) ==
    IF BroadcastShape(s, mask) = s THEN s ELSE ShapeError

\* Tensor.repeat(n, 1, 1) of a 3-d tensor
Repeat3Shape(s, n) ==
    IF IsShape(s) /\ Len(s) = 3 THEN [s EXCEPT ![1] = s[1] * n] ELSE ShapeError

\* _relative_shift on shapes (lines 78-85)
RelativeShiftShape(s) ==
    IF ~IsShape(s) \/ Len(s) # 4 THEN ShapeError
    ELSE LET padded == [s EXCEPT ![4] = s[4] + 1]
             viewed == ViewShape(padded, <<s[1], s[2], s[4] + 1, s[3]>>)
             sliced == IF IsShape(viewed) THEN [viewed EXCEPT ![3] = viewed[3] - 1]
                       ELSE ShapeError
         IN  ViewShape(sliced, s)

-----------------------------------------------------------------------------
(* RelativeMultiHeadAttention.forward on shapes *)

\* the projection's view(batch_size, -1, n_heads, d_head)
HeadsView(m, s, batch_size) == ViewShape(s, <<batch_size, -1, m.n_heads, m.d_head>>)

ForwardShapes(m, q, k, v, pos_embedding, mask) ==
    LET batch_size == v[1]
        D == m.d_model
        q4 == HeadsView(m, LinearShape(q, D, D), batch_size)
        k4 == PermuteShape(HeadsView(m, LinearShape(k, D, D), batch_size), <<0, 2, 1, 3>>)
        v4 == PermuteShape(HeadsView(m, LinearShape(v, D, D), batch_size), <<0, 2, 1, 3>>)
        pos4 == HeadsView(m, LinearShape(pos_embedding, D, D), batch_size)
        content_score ==
            MatmulShape(TransposeShape(BroadcastShape(q4, m.u_bias), 1, 2),
                        TransposeShape(k4, 2, 3))
        pos_score ==
            MatmulShape(TransposeShape(BroadcastShape(q4, m.v_bias), 1, 2),
                        PermuteShape(pos4, <<0, 2, 3, 1>>))
        shifted == RelativeShiftShape(pos_score)
        score == BroadcastShape(content_score, shifted)
        masked == IF mask = NoMask THEN score
                  ELSE MaskedFillShape(score, Unsqueeze1Shape(mask))
        attn == masked
        context == TransposeShape(MatmulShape(attn, v4), 1, 2)
        merged == ViewShape(context, <<batch_size, -1, D>>)
        output == LinearShape(merged, D, D)
    IN  [q4 |-> q4, k4 |-> k4, v4 |-> v4, pos4 |-> pos4,
         content_score |-> content_score, pos_score |-> shifted,
         score |-> masked, context |-> context, merged |-> merged,
         output |-> output]

-----------------------------------------------------------------------------
(* MultiHeadedSelfAttentionModule.forward on shapes *)

\* PositionalEncoding(d_model)(length): a (1, length, d_model) tensor
PositionalEncodingShape(length, d_model) == <<1, length, d_model>>

\* nn.LayerNorm(d_model): the last dimension must be d_model
LayerNormShape(s, d_model) ==
    IF IsShape(s) /\ Len(s) >= 1 /\ Last(s) = d_model THEN s ELSE ShapeError

NoRepeat(pos, batch_size) == pos

\* pos_embedding.repeat(batch_size, 1, 1)
RepeatBatch(pos, batch_size) == Repeat3Shape(pos, batch_size)

\* the arguments the wrapper hands to self.attention (line 112)
SelfAttnArgs(m, inputs, mask) ==
    LET batch_size == inputs[1]
        seq_length == inputs[2]
        pos_embedding ==
            RepeatBatch(PositionalEncodingShape(seq_length, m.d_model), batch_size)
        normed == LayerNormShape(inputs, m.d_model)
    IN  [kind |-> "self", inputs |-> inputs,
         q |-> normed, k |-> normed, v |-> normed,
         pos |-> pos_embedding, mask |-> mask]

-----------------------------------------------------------------------------
(* Forward calls on shapes *)

InitShape ==
    /\ module \in {NewModule(d, h) : d \in 1..MaxWidth, h \in 1..MaxWidth}
    /\ module.d_model % module.n_heads = 0
    /\ raised = "none"
    /\ args = NoArgs
    /\ ret = << >>
    /\ trace = << >>
    /\ params = << >>
    /\ env = << >>
    /\ rng = 0
    /\ out = << >>
    /\ calls = << >>

\* self.attention(q, k, v, pos_embedding, mask), called with a = the arguments
Attend(a) ==
    /\ args' = a
    /\ trace' = ForwardShapes(module, a.q, a.k, a.v, a.pos, a.mask)
    /\ ret' = trace'.output
    /\ raised' = IF IsShape(ret') THEN "none" ELSE "RuntimeError"
    /\ UNCHANGED <<module, params, env, rng, out, calls>>

\* RelativeMultiHeadAttention.forward(q, k, v, pos_embedding, mask)
AttnForward(q, k, v, pos, mask) ==
    Attend([kind |-> "attn", q |-> q, k |-> k, v |-> v, pos |-> pos, mask |-> mask])

\* MultiHeadedSelfAttentionModule.forward(inputs, mask); the trailing
\* dropout keeps the shape
SelfAttnForward(inputs, mask) == Attend(SelfAttnArgs(module, inputs, mask))

\* (batch, time, width) with width d_model, or d_model + 1 when off
Shape3(b, t, off) == <<b, t, module.d_model + (IF off THEN 1 ELSE 0)>>

Batches == 1..MaxBatch
Times == 1..MaxTime

MaskShapes == {<<a, r, c>> : a \in Batches, r \in Times, c \in Times}

\* forward called with arbitrary (batch, time) per tensor, at most one
\* tensor of the wrong width, and without a mask or with a (batch, 1, time2) one
CallAttnAnyShapes ==
    /\ args = NoArgs
    /\ \E qb \in Batches, kb \in Batches, vb \in Batches, pb \in Batches,
          qt \in Times, kt \in Times, vt \in Times, pt \in Times,
          off \in {"none", "q", "k", "v", "pos"}, masked \in BOOLEAN :
            AttnForward(Shape3(qb, qt, off = "q"), Shape3(kb, kt, off = "k"),
                        Shape3(vb, vt, off = "v"), Shape3(pb, pt, off = "pos"),
                        IF masked THEN <<vb, 1, kt>> ELSE NoMask)

\* forward called with q, k, v, pos_embedding of one shape and any mask
CallAttnAnyMask ==
    /\ args = NoArgs
    /\ \E b \in Batches, t \in Times, mask \in MaskShapes :
            AttnForward(Shape3(b, t, FALSE), Shape3(b, t, FALSE),
                        Shape3(b, t, FALSE), Shape3(b, t, FALSE), mask)

\* the wrapper called with any input and any mask
CallSelfAttn ==
    /\ args = NoArgs
    /\ \E b \in Batches, t \in Times, off \in BOOLEAN,
          mask \in MaskShapes \cup {NoMask} :
            SelfAttnForward(Shape3(b, t, off), mask)

NextShape == CallAttnAnyShapes \/ CallAttnAnyMask \/ CallSelfAttn

SpecShape == InitShape /\ [][NextShape]_vars

\* the mask shapes the docstrings name, for a (batch, time) input
DocumentedMask(mask, b, t) == mask \in {NoMask, <<b, 1, t>>, <<b, t, t>>}

\* q, k, v and pos_embedding all of one shape (batch, time, d_model)
SameShapes(a) ==
    /\ a.k = a.q /\ a.v = a.q /\ a.pos = a.q
    /\ Len(a.q) = 3 /\ a.q[3] = module.d_model

\* C2: with n_heads dividing d_model and q, k, v, pos_embedding of one shape
\* (batch, time, d_model), with or without a mask, forward returns a tensor
\* of the query's shape, and the intermediate views and scores have shapes
\* (batch, time, n_heads, d_head), (batch, n_heads, time, time) and
\* (batch, time, d_model) with the element counts agreeing.
C2_OutputShape ==
    (args.kind = "attn" /\ SameShapes(args)
        /\ DocumentedMask(args.mask, args.q[1], args.q[2])) =>
        LET B == args.q[1]
            T == args.q[2]
            H == module.n_heads
        IN  /\ ret = args.q
            /\ raised = "none"
            /\ trace.q4 = <<B, T, H, module.d_head>>
            /\ Numel(trace.q4) = Numel(args.q)
            /\ trace.k4 = <<B, H, T, module.d_head>>
            /\ trace.v4 = <<B, H, T, module.d_head>>
            /\ trace.pos4 = <<B, T, H, module.d_head>>
            /\ trace.content_score = <<B, H, T, T>>
            /\ trace.pos_score = <<B, H, T, T>>
            /\ trace.score = <<B, H, T, T>>
            /\ trace.context = <<B, T, H, module.d_head>>
            /\ trace.merged = <<B, T, module.d_model>>
            /\ Numel(trace.merged) = Numel(trace.context)

C2_Witness ==
    /\ args.kind = "attn" /\ SameShapes(args)
    /\ args.q = <<2, 2, 2>> /\ module.n_heads = 2
    /\ args.mask = <<2, 1, 2>>
    /\ ret = <<2, 2, 2>>

\* the inconsistencies the claim C4 names
Inconsistent(a) ==
    \/ \E x \in {a.q, a.k, a.v, a.pos} : x[3] # module.d_model
    \/ \E x \in {a.q, a.k, a.pos} : x[1] # a.v[1]
    \/ a.k[2] # a.pos[2]
    \/ a.mask # NoMask /\ a.mask # <<a.v[1], a.q[2], a.k[2]>>

\* C4 as stated: every call with mutually inconsistent shapes ends in a
\* shape-mismatch error and returns no tensor.
C4_AsStated ==
    (args.kind = "attn" /\ Inconsistent(args)) =>
        (ret = ShapeError /\ raised = "RuntimeError")

\* the shapes the engine accepts, in closed form
Accepted(a) ==
    LET B == a.v[1]
        D == module.d_model
        Tq == (a.q[1] * a.q[2]) \div B
        Tk == (a.k[1] * a.k[2]) \div B
        Tp == (a.pos[1] * a.pos[2]) \div B
        S == Max2(Tk, Tp)
    IN  /\ \A x \in {a.q, a.k, a.v, a.pos} : x[3] = D
        /\ \A x \in {a.q, a.k, a.pos} : (x[1] * x[2]) % B = 0
        /\ Tk = Tp \/ Tk = 1 \/ Tp = 1
        /\ S = a.v[2]
        /\ a.mask # NoMask =>
              /\ a.mask[1] \in {1, B}
              /\ a.mask[2] \in {1, Tq}
              /\ a.mask[3] \in {1, S}

ExpectedOutput(a) == <<a.v[1], (a.q[1] * a.q[2]) \div a.v[1], module.d_model>>

\* C4 (amended): a call ends in a shape-mismatch error exactly when the
\* engine rejects the shapes (a last dimension other than d_model, an
\* element count v's batch size does not divide, key and positional lengths
\* that differ with neither 1, a score length other than the value length, a
\* mask that does not broadcast); every other call, consistent or not,
\* returns a tensor of shape (v.batch, numel(q) / (v.batch * d_model), d_model).
C4_EngineRejects ==
    args.kind = "attn" =>
        /\ ~Accepted(args) => (ret = ShapeError /\ raised = "RuntimeError")
        /\ Accepted(args) => (ret = ExpectedOutput(args) /\ raised = "none")

C4_Witness ==
    /\ args.kind = "attn"
    /\ args.q[1] = 2 /\ args.v[1] = 2 /\ args.k[1] = 2 /\ args.pos[1] = 2
    /\ args.k[2] = 2 /\ args.v[2] = 1
    /\ Inconsistent(args)
    /\ ret = ShapeError

\* C7: for an input (batch, time, d_model), with or without a mask, the
\* wrapper returns a tensor of the input's shape, and calls the attention
\* with query = key = value = the normalized input (same shape) and a
\* positional embedding of the same (batch, time, d_model) shape.
C7_SelfAttention ==
    (args.kind = "self" /\ args.inputs[3] = module.d_model
        /\ DocumentedMask(args.mask, args.inputs[1], args.inputs[2])) =>
        /\ ret = args.inputs
        /\ raised = "none"
        /\ args.q = args.inputs /\ args.k = args.q /\ args.v = args.q
        /\ args.pos = <<args.inputs[1], args.inputs[2], module.d_model>>

C7_Witness ==
    /\ args.kind = "self" /\ args.inputs = <<2, 2, 2>>
    /\ args.mask = <<2, 2, 2>> /\ module.n_heads = 2
    /\ args.pos = <<2, 2, 2>> /\ ret = <<2, 2, 2>>

-----------------------------------------------------------------------------
(* Tensor operations with values *)

RECURSIVE SumUpTo(_, _)
SumUpTo(f, n) == IF n = 0 THEN 0 ELSE f[n] + SumUpTo(f, n - 1)

RECURSIVE MaxUpTo(_, _)
MaxUpTo(f, n) == IF n = 1 THEN f[1] ELSE Max2(f[n], MaxUpTo(f, n - 1))

\* Linear(d_in, d_out, bias): x W^T + b over the last axis; lin.W is the
\* d_out x d_in weight, lin.b the bias (zeros for bias=False)
TLinear(lin, x) ==
    LET d_out == Len(lin.W)
        d_in == Len(lin.W[1])
        shape == LinearShape(x.shape, d_in, d_out)
    IN  Tensor(shape,
               [n \in 1..Numel(shape) |->
                   LET row == (n - 1) \div d_out
                       o == ((n - 1) % d_out) + 1
                   IN  lin.b[o] + SumUpTo([i \in 1..d_in |->
                                              x.data[row * d_in + i] * lin.W[o][i]], d_in)])

\* Tensor.view(...) with one dimension inferred
TView(t, target) == View(t, ViewShape(t.shape, target))

\* Tensor.permute(*perm): a view with the axes reordered
TPermute(t, perm) ==
    LET shape == PermuteShape(t.shape, perm)
    IN  [Tensor(shape,
                [n \in 1..Numel(shape) |->
                    t.data[1 + SumUpTo([k \in 1..Len(shape) |->
                                           Coord(n - 1, shape, k) * Stride(t.shape, perm[k] + 1)],
                                       Len(shape))]])
         EXCEPT !.base = t.base]

\* Tensor.transpose(d0, d1)
TTranspose(t, d0, d1) ==
    TPermute(t, [k \in 1..Len(t.shape) |->
                    IF k = d0 + 1 THEN d1 ELSE IF k = d1 + 1 THEN d0 ELSE k - 1])

\* position (1-based) in a tensor of this shape of the element broadcast to
\* flat offset n of a tensor of shape outshape
BroadcastIndex(shape, n, outshape) ==
    LET lead == Len(outshape) - Len(shape)
    IN  1 + SumUpTo([k \in 1..Len(shape) |->
                        IF shape[k] = 1 THEN 0
                        ELSE Coord(n, outshape, k + lead) * Stride(shape, k)],
                    Len(shape))

\* a + b with broadcasting: a new tensor
TAdd(a, b) ==
    LET shape == BroadcastShape(a.shape, b.shape)
    IN  Tensor(shape,
               [n \in 1..Numel(shape) |->
                   a.data[BroadcastIndex(a.shape, n - 1, shape)]
                   + b.data[BroadcastIndex(b.shape, n - 1, shape)]])

\* torch.matmul of two 4-d tensors with equal leading dimensions
TMatmul(a, b) ==
    LET shape == MatmulShape(a.shape, b.shape)
        K == a.shape[4]
    IN  Tensor(shape,
               [n \in 1..Numel(shape) |->
                   LET i0 == Coord(n - 1, shape, 1)
                       i1 == Coord(n - 1, shape, 2)
                       i2 == Coord(n - 1, shape, 3)
                       i3 == Coord(n - 1, shape, 4)
                   IN  SumUpTo([k \in 1..K |->
                                   At4(a, i0, i1, i2, k - 1) * At4(b, i0, i1, k - 1, i3)], K)])

\* t / d: a new tensor
TDiv(t, d) == Tensor(t.shape, [n \in 1..Numel(t.shape) |-> t.data[n] \div d])

\* Tensor.unsqueeze(1): a view
TUnsqueeze1(t) == View(t, Unsqueeze1Shape(t.shape))

NoFill(t, mask, value) == t

\* Tensor.masked_fill_(mask, value): writes value where the (broadcast)
\* mask is set, in place: the result is the same storage
TMaskedFill(t, mask, value) ==
    [t EXCEPT !.data =
        [n \in 1..Numel(t.shape) |->
            IF mask.data[BroadcastIndex(mask.shape, n - 1, t.shape)]
            THEN value ELSE t.data[n]] \o << >>]

\* F.softmax and exp on the grid: ExpNeg(d) is 10^6 * e^(-d) rounded down
ExpTable ==
    <<1000000, 367879, 135335, 49787, 18315, 6737, 2478, 911, 335, 123, 45, 16, 6, 2>>

ExpNeg(d) == IF d < Len(ExpTable) THEN ExpTable[d + 1] ELSE 0

\* F.softmax(score, -1): as the engine computes it, exp(x - max) over the
\* sum of the row.  The weight of element n is the fraction data[n] / den[n].
Softmax(t) ==
    LET L == Last(t.shape)
        N == Numel(t.shape)
        rowmax == [r \in 0..((N \div L) - 1) |->
                      MaxUpTo([j \in 1..L |-> t.data[r * L + j]], L)]
        num == [n \in 1..N |-> ExpNeg(rowmax[(n - 1) \div L] - t.data[n])] \o << >>
        rowsum == [r \in 0..((N \div L) - 1) |->
                      SumUpTo([j \in 1..L |-> num[r * L + j]], L)]
    IN  [shape |-> t.shape, data |-> num,
         den |-> [n \in 1..N |-> rowsum[(n - 1) \div L]] \o << >>,
         base |-> "fresh"]

\* the mask of kept elements the generator yields at stream position pos,
\* for drop probability tenths / 10
Keep(pos, tenths) == ((pos * 7 + 3) % 10) >= tenths

DropoutAlways(training, tenths) == tenths > 0

\* nn.Dropout draws random numbers only in training mode (and p > 0)
DropoutActive(training, tenths) == training /\ tenths > 0

\* self.dropout(attn) on the fractions data/den: kept elements are scaled by
\* 1 / (1 - p); an inactive dropout returns its input
DropoutAttn(attn, active, tenths, offset) ==
    IF ~active THEN attn
    ELSE [shape |-> attn.shape,
          data |-> [n \in 1..Len(attn.data) |->
                       IF Keep(offset + n - 1, tenths) THEN attn.data[n] * 10 ELSE 0] \o << >>,
          den |-> [n \in 1..Len(attn.den) |-> attn.den[n] * (10 - tenths)] \o << >>,
          base |-> "fresh"]

\* self.dropout(outputs)
DropoutOut(t, active, tenths, offset) ==
    IF ~active THEN t
    ELSE Tensor(t.shape,
                [n \in 1..Len(t.data) |->
                    IF Keep(offset + n - 1, tenths)
                    THEN (t.data[n] * 10) \div (10 - tenths) ELSE 0])

\* torch.matmul(attn, v) with attn the fractions data/den
AttnMatmul(attn, v) ==
    LET shape == MatmulShape(attn.shape, v.shape)
        K == attn.shape[4]
    IN  Tensor(shape,
               [n \in 1..Numel(shape) |->
                   LET i0 == Coord(n - 1, shape, 1)
                       i1 == Coord(n - 1, shape, 2)
                       i2 == Coord(n - 1, shape, 3)
                       i3 == Coord(n - 1, shape, 4)
                       row == [shape |-> attn.shape, data |-> attn.den]
                   IN  SumUpTo([k \in 1..K |->
                                   At4(attn, i0, i1, i2, k - 1) * At4(v, i0, i1, k - 1, i3)], K)
                       \div At4(row, i0, i1, i2, 0)])

\* Tensor.contiguous(): a copy in row-major order
Contiguous(t) == Tensor(t.shape, t.data)

-----------------------------------------------------------------------------
(* Masking and normalizing the scores: forward, lines 62-66 *)

\* the value masked positions are set to (line 64)
FillValue == -1000000000

\* mask = None, as a tensor
NoMaskTensor == [shape |-> NoMask, data |-> << >>, base |-> "mask"]

UnsqueezeMaskInPlace(mask) == [view |-> TUnsqueeze1(mask), caller |-> TUnsqueeze1(mask)]

\* mask = mask.unsqueeze(1): rebinds the local name to a new view; the
\* caller's tensor keeps its shape
UnsqueezeMask(mask) == [view |-> TUnsqueeze1(mask), caller |-> mask]

\* if mask is not None: score.masked_fill_(mask.unsqueeze(1), -1e9)
MaskScore(score, mask) ==
    IF mask.shape = NoMask THEN score
    ELSE TMaskedFill(score, UnsqueezeMask(mask).view, FillValue)

\* the caller's mask after lines 62-64
MaskAfter(mask) ==
    IF mask.shape = NoMask THEN mask ELSE UnsqueezeMask(mask).caller

\* what an in-place write to tensor t does to the named tensors of store:
\* the one t is a view of, if any, takes t's elements
WriteBack(store, t) ==
    IF t.base \in DOMAIN store
    THEN [store EXCEPT ![t.base] = [@ EXCEPT !.data = t.data]]
    ELSE store

\* attn = F.softmax(score, -1) after the masking
MaskedSoftmax(score, mask) == Softmax(MaskScore(score, mask))

\* finite scores: an ordinary one, and ones at and just above the fill value
ScoreSamples == {0, FillValue, FillValue + 13, FillValue + 14}

InitSoftmax == Idle

ApplyMaskedSoftmax(score, mask) ==
    /\ args = NoArgs
    /\ args' = [kind |-> "softmax", score |-> score, mask |-> mask]
    /\ out' = MaskedSoftmax(score, mask)
    /\ UNCHANGED <<module, raised, ret, trace, params, env, rng, calls>>

\* the scores of SoftHeads heads for one query row of L keys: the heads take
\* the rows first and second in turn
HeadRows(first, second, L) ==
    Tensor(<<1, SoftHeads, 1, L>>,
           [n \in 1..(SoftHeads * L) |->
               IF ((n - 1) \div L) % 2 = 0
               THEN first[((n - 1) % L) + 1] ELSE second[((n - 1) % L) + 1]])

\* a (1, heads, 1, L) score tensor and a (1, 1, L) mask
NextSoftmax ==
    /\ args = NoArgs
    /\ \E L \in 1..SoftLen :
          \E first \in [1..L -> ScoreSamples], second \in [1..L -> ScoreSamples],
             md \in [1..L -> BOOLEAN] :
              ApplyMaskedSoftmax(HeadRows(first, second, L),
                                 [shape |-> <<1, 1, L>>, data |-> md, base |-> "mask"])

SpecSoftmax == InitSoftmax /\ [][NextSoftmax]_vars

\* whether the mask (broadcast over the head axis) marks element n of the scores
Marked(a, n) ==
    a.mask.data[BroadcastIndex(Unsqueeze1Shape(a.mask.shape), n - 1, a.score.shape)]

\* the weight num / den is below 1e-6
BelowEpsilon(num, den) == num <= 2000 /\ num * 1000000 < den

SameRow(shape, m, n) == (m - 1) \div Last(shape) = (n - 1) \div Last(shape)

\* C3 as stated: for any mask and any finite scores every marked position
\* gets a weight below 1e-6 after the softmax.
C3_AsStated ==
    args.kind = "softmax" =>
        \A n \in 1..Numel(args.score.shape) :
            Marked(args, n) => BelowEpsilon(out.data[n], out.den[n])

\* C3 (amended): every marked position whose row also holds an unmarked
\* position with a score of at least -1e9 + 14 gets a weight below 1e-6;
\* a row with every position marked is normalized to uniform weights 1/time.
C3_MaskedWeights ==
    args.kind = "softmax" =>
        \A n \in 1..Numel(args.score.shape) :
            /\ (/\ Marked(args, n)
                /\ \E m \in 1..Numel(args.score.shape) :
                      /\ SameRow(args.score.shape, m, n)
                      /\ ~Marked(args, m)
                      /\ args.score.data[m] >= FillValue + 14)
               => BelowEpsilon(out.data[n], out.den[n])
            /\ (\A m \in 1..Numel(args.score.shape) :
                   SameRow(args.score.shape, m, n) => Marked(args, m))
               => out.den[n] = Last(args.score.shape) * out.data[n]

C3_Witness ==
    /\ args.kind = "softmax"
    /\ args.score.shape = <<1, 2, 1, 2>>
    /\ args.mask.data = <<FALSE, TRUE>>
    /\ args.score.data = <<0, 0, FillValue + 14, FillValue + 13>>
    /\ out.data[2] = 0 /\ out.data[4] = 0

-----------------------------------------------------------------------------
(* RelativeMultiHeadAttention.forward with values *)

ErrorTensor == [shape |-> ShapeError, data |-> << >>, base |-> "fresh"]

\* self.linear_q(q), line 47
QueryProjection(P) == P.linear_q

UseLinearK(P) == P.linear_k

\* self.linear_q(k), line 48: the key goes through the query projection
KeyProjection(P) == P.linear_q

\* self.linear_q(v), line 50: the value goes through the query projection
ValueProjection(P) == P.linear_q

\* forward(q, k, v, pos_embedding, mask) on module m with parameters P, the
\* caller's tensors E and the dropout generator at stream position offset.
\* Yields the output, the number of random draws, the tensor written in
\* place and the caller's mask as the call leaves it.
AttentionForward(m, P, E, offset) ==
    LET shapes == ForwardShapes(m, E.q.shape, E.k.shape, E.v.shape, E.pos.shape, E.mask.shape)
        batch_size == E.v.shape[1]
        heads == <<batch_size, -1, m.n_heads, m.d_head>>
        q4 == TView(TLinear(QueryProjection(P), E.q), heads)
        k4 == TPermute(TView(TLinear(KeyProjection(P), E.k), heads), <<0, 2, 1, 3>>)
        v4 == TPermute(TView(TLinear(ValueProjection(P), E.v), heads), <<0, 2, 1, 3>>)
        pos4 == TView(TLinear(P.linear_pos, E.pos), heads)
        content_score == TMatmul(TTranspose(TAdd(q4, P.u_bias), 1, 2), TTranspose(k4, 2, 3))
        pos_score == RelativeShift(TMatmul(TTranspose(TAdd(q4, P.v_bias), 1, 2),
                                           TPermute(pos4, <<0, 2, 3, 1>>)))
        score == TDiv(TAdd(content_score, pos_score), m.sqrt_dim)
        masked == MaskScore(score, E.mask)
        active == DropoutActive(m.training, m.dropout_p)
        attn == DropoutAttn(Softmax(masked), active, m.dropout_p, offset)
        context == TTranspose(AttnMatmul(attn, v4), 1, 2)
        merged == TView(Contiguous(context), <<batch_size, -1, m.d_model>>)
        output == TLinear(P.fc, merged)
    IN  IF ~IsShape(shapes.output)
        THEN [raised |-> "RuntimeError", output |-> ErrorTensor, draws |-> 0,
              k4 |-> ErrorTensor, v4 |-> ErrorTensor,
              written |-> ErrorTensor, mask |-> MaskAfter(E.mask)]
        ELSE [raised |-> "none", output |-> output,
              draws |-> IF active THEN Numel(attn.shape) ELSE 0,
              k4 |-> k4, v4 |-> v4,
              written |-> masked, mask |-> MaskAfter(E.mask)]

-----------------------------------------------------------------------------
(* MultiHeadedSelfAttentionModule.forward with values *)

\* sin and cos of 0, 1, 2, ... rounded down to the grid
SinTable == <<0, 0, 0, 0, -1, -1, -1>>
CosTable == <<1, 0, -1, -1, -1, 0, 0>>

\* PositionalEncoding(d_model)(length): the sinusoidal table, a
\* (1, length, d_model) tensor; column 2i holds sin(pos / 10000^(2i/d_model)),
\* column 2i+1 the cosine.  Beyond the first pair the angle is below 1 for
\* the positions used: the sine rounds down to 0, the cosine to 1 at
\* position 0 and to 0 after it.
PositionalEncoding(length, d_model) ==
    Tensor(<<1, length, d_model>>,
           [n \in 1..(length * d_model) |->
               LET pos == (n - 1) \div d_model
                   col == (n - 1) % d_model
               IN  IF col = 0 THEN SinTable[pos + 1]
                   ELSE IF col = 1 THEN CosTable[pos + 1]
                   ELSE IF col % 2 = 0 THEN 0
                   ELSE IF pos = 0 THEN 1 ELSE 0])

\* Tensor.repeat(batch_size, 1, 1): a new tensor
TRepeat(t, batch_size) ==
    LET shape == Repeat3Shape(t.shape, batch_size)
    IN  Tensor(shape, [n \in 1..Numel(shape) |-> t.data[((n - 1) % Len(t.data)) + 1]])

\* (x - mean) / sqrt(var + eps) rounded down, for a = D*x - sum(x) and
\* ss = sum(a^2): the value is a * sqrt(D) / sqrt(ss), pulled toward 0 by eps
Normalized(a, D, ss) ==
    IF a = 0 THEN 0
    ELSE IF a > 0
         THEN CHOOSE r \in 0..D :
                 r * r * ss < a * a * D /\ (r + 1) * (r + 1) * ss >= a * a * D
         ELSE 0 - (CHOOSE r \in 0..D :
                      r * r * ss >= a * a * D /\ (r = 0 \/ (r - 1) * (r - 1) * ss < a * a * D))

\* nn.LayerNorm(d_model) over the last axis: a new tensor
LayerNorm(ln, x) ==
    LET D == Len(ln.weight)
        a == [n \in 1..Len(x.data) |->
                 D * x.data[n]
                 - SumUpTo([i \in 1..D |-> x.data[((n - 1) \div D) * D + i]], D)] \o << >>
        ss == [r \in 0..((Len(x.data) \div D) - 1) |->
                  SumUpTo([i \in 1..D |-> a[r * D + i] * a[r * D + i]], D)]
    IN  Tensor(LayerNormShape(x.shape, D),
               [n \in 1..Len(x.data) |->
                   Normalized(a[n], D, ss[(n - 1) \div D]) * ln.weight[((n - 1) % D) + 1]
                   + ln.bias[((n - 1) % D) + 1]])

\* return self.dropout(outputs), line 114, r being what the attention yields
DropoutReturn(m, r, offset) ==
    LET active == DropoutActive(m.training, m.dropout_p)
    IN  [raised |-> r.raised,
         output |-> DropoutOut(r.output, active, m.dropout_p, offset + r.draws),
         draws |-> r.draws + (IF active THEN Len(r.output.data) ELSE 0),
         k4 |-> r.k4, v4 |-> r.v4,
         written |-> r.written, mask |-> r.mask]

\* forward(inputs, mask): inputs is the caller's E.q
SelfAttentionForward(m, P, E, offset) ==
    LET batch_size == E.q.shape[1]
        seq_length == E.q.shape[2]
        pos_embedding == TRepeat(PositionalEncoding(seq_length, m.d_model), batch_size)
        inputs == LayerNorm(P.layer_norm, E.q)
    IN  DropoutReturn(m,
                      AttentionForward(m, P, [q |-> inputs, k |-> inputs, v |-> inputs,
                                              pos |-> pos_embedding, mask |-> E.mask],
                                       offset),
                      offset)

-----------------------------------------------------------------------------
(* Forward calls with values *)

\* d_model x d_model weights: the identity, and the identity plus a shift
IdentityWeight(D) == [o \in 1..D |-> [i \in 1..D |-> IF i = o THEN 1 ELSE 0]]
MixingWeight(D) ==
    [o \in 1..D |-> [i \in 1..D |-> IF i = o \/ i = (o % D) + 1 THEN 1 ELSE 0]]

Constant(D, c) == [i \in 1..D |-> c]

\* the values a Linear(d_model, d_model) is drawn from
LinearSamples(D) ==
    <<[W |-> IdentityWeight(D), b |-> Constant(D, 0)],
      [W |-> MixingWeight(D), b |-> Constant(D, 1)]>>

\* elements -2..2 in a pattern set by a
Pattern(shape, a, base) ==
    [Tensor(shape, [n \in 1..Numel(shape) |-> ((n * n + a * n) % 5) - 2])
     EXCEPT !.base = base]

\* the parameters after construction (line 29-42, and the wrapper's
\* LayerNorm, line 101), linear_q being the iq-th sample
NewParams(m, iq) ==
    [linear_q |-> LinearSamples(m.d_model)[iq],
     linear_k |-> LinearSamples(m.d_model)[1],
     linear_v |-> LinearSamples(m.d_model)[2],
     linear_pos |-> LinearSamples(m.d_model)[1],
     fc |-> LinearSamples(m.d_model)[2],
     u_bias |-> Pattern(m.u_bias, 2, "u_bias"),
     v_bias |-> Pattern(m.v_bias, 3, "v_bias"),
     layer_norm |-> [weight |-> Constant(m.d_model, 1), bias |-> Constant(m.d_model, 0)]]

\* masks for a (B, T) input: none, the last key position padded, causal,
\* every position masked
MaskSamples(B, T) ==
    {NoMaskTensor,
     [shape |-> <<B, 1, T>>, data |-> [n \in 1..(B * T) |-> (n - 1) % T = T - 1],
      base |-> "mask"],
     [shape |-> <<B, T, T>>,
      data |-> [n \in 1..(B * T * T) |-> (n - 1) % T > ((n - 1) \div T) % T],
      base |-> "mask"],
     [shape |-> <<B, 1, T>>, data |-> [n \in 1..(B * T) |-> TRUE], base |-> "mask"]}

\* the caller's tensors: q, k, v, the positional embedding and the mask
CallerTensors(m, B, T, mask) ==
    LET shape == <<B, T, m.d_model>>
    IN  [q |-> Pattern(shape, 1, "q"),
         k |-> Pattern(shape, 2, "k"),
         v |-> Pattern(shape, 3, "v"),
         pos |-> [TRepeat(PositionalEncoding(T, m.d_model), B) EXCEPT !.base = "pos"],
         mask |-> mask]

\* modules of width 4 (sqrt_dim = 2) with 1 or 2 heads: in training mode
\* with dropout probability 0.5, after eval(), and in training mode with
\* dropout probability 0
InitNum ==
    /\ \E h \in {1, 2}, mode \in {<<TRUE, 5>>, <<FALSE, 5>>, <<TRUE, 0>>} :
          module = [NewModule(4, h) EXCEPT !.training = mode[1], !.dropout_p = mode[2]]
    /\ params = NewParams(module, 2)
    /\ \E B \in 1..NumBatch, T \in 1..NumTime :
          \E mask \in MaskSamples(B, T) :
              env = CallerTensors(module, B, T, mask)
    /\ raised = "none"
    /\ args = NoArgs
    /\ ret = << >>
    /\ trace = << >>
    /\ rng = 0
    /\ out = ErrorTensor
    /\ calls = << >>

\* the call's effects on the state
Effects(kind, r) ==
    /\ Len(calls) < MaxCalls
    /\ out' = r.output
    /\ raised' = r.raised
    /\ rng' = rng + r.draws
    /\ env' = WriteBack([env EXCEPT !.mask = r.mask], r.written)
    /\ params' = WriteBack(params, r.written)
    /\ trace' = [k4 |-> r.k4, v4 |-> r.v4]
    /\ calls' = Append(calls, [kind |-> kind, env |-> env, params |-> params,
                               rng |-> rng, out |-> r.output, raised |-> r.raised])
    /\ UNCHANGED <<module, args, ret>>

\* attention(q, k, v, pos_embedding, mask) on the caller's tensors
CallAttention == Effects("attn", AttentionForward(module, params, env, rng))

\* wrapper(inputs, mask) on the caller's q and mask
CallSelfAttention == Effects("self", SelfAttentionForward(module, params, env, rng))

\* the optimizer (or any holder of the module) gives the parameters of
\* linear_k and linear_v new values
SetKeyValueParams ==
    /\ Len(calls) < MaxCalls
    /\ params' = [params EXCEPT !.linear_k = LinearSamples(module.d_model)[2],
                                !.linear_v = LinearSamples(module.d_model)[1]]
    /\ params' # params
    /\ UNCHANGED <<module, raised, args, ret, trace, env, rng, out, calls>>

NextNum == CallAttention \/ CallSelfAttention \/ SetKeyValueParams

SpecNum == InitNum /\ [][NextNum]_vars


DropoutDisabled == ~(module.training /\ module.dropout_p > 0)

\* C6: with dropout disabled and the parameters held fixed, two calls of the
\* same forward on the caller's (same) tensors and mask return identical
\* outputs, also when made one after the other on one module.
C6_Deterministic ==
    \A i \in 1..Len(calls), j \in 1..Len(calls) :
        (/\ i < j
         /\ DropoutDisabled
         /\ calls[i].kind = calls[j].kind
         /\ calls[i].params = calls[j].params)
        => /\ calls[j].out = calls[i].out
           /\ calls[j].raised = calls[i].raised

C6_Witness ==
    /\ Len(calls) = 2 /\ DropoutDisabled
    /\ calls[1].kind = "self" /\ calls[2].kind = "self"
    /\ calls[1].params = calls[2].params
    /\ env.mask.shape = <<1, 2, 2>>
    /\ calls[2].out = calls[1].out /\ calls[2].out.shape = <<1, 2, 4>>

\* the parameters other than those of linear_k and linear_v
WithoutKeyValue(P) == [P EXCEPT !.linear_k = << >>, !.linear_v = << >>]

\* the (batch, n_heads, time, d_head) projection of x through lin
HeadProjection(m, lin, x) ==
    TPermute(TView(TLinear(lin, x), <<x.shape[1], -1, m.n_heads, m.d_head>>), <<0, 2, 1, 3>>)

\* C9: key and value go through linear_q, and the output of forward does not
\* depend on the parameters of linear_k and linear_v: two calls that differ
\* only in those parameters return the same output.
C9_KeyValueIgnored ==
    /\ \A i \in 1..Len(calls) :
          calls[i].kind = "attn" /\ i = Len(calls) =>
              /\ trace.k4 = HeadProjection(module, calls[i].params.linear_q, calls[i].env.k)
              /\ trace.v4 = HeadProjection(module, calls[i].params.linear_q, calls[i].env.v)
    /\ \A i \in 1..Len(calls), j \in 1..Len(calls) :
          (/\ i < j
           /\ calls[i].kind = "attn" /\ calls[j].kind = "attn"
           /\ calls[i].rng = calls[j].rng
           /\ calls[i].env = calls[j].env
           /\ WithoutKeyValue(calls[i].params) = WithoutKeyValue(calls[j].params))
          => calls[j].out = calls[i].out

C9_Witness ==
    /\ Len(calls) = 2
    /\ calls[1].kind = "attn" /\ calls[2].kind = "attn"
    /\ calls[1].params.linear_k # calls[2].params.linear_k
    /\ calls[1].params.linear_v # calls[2].params.linear_v
    /\ calls[1].params.linear_k # calls[1].params.linear_q
    /\ module.n_heads = 2
    /\ calls[1].rng = calls[2].rng
    /\ calls[2].out = calls[1].out /\ calls[2].out.shape = <<1, 2, 4>>

\* C10: a forward call of either module leaves the parameters, the module's
\* attributes and the caller's tensors (q, k, v, pos_embedding, mask) as they
\* were; it changes the dropout generator's state only in training mode.
C10_FrameEffect ==
    [][calls' # calls =>
          /\ params' = params
          /\ env' = env
          /\ module' = module
          /\ rng' # rng => module.training]_vars

C10_Witness ==
    /\ Len(calls) = 2
    /\ calls[1].kind = "attn" /\ calls[2].kind = "self"
    /\ env.mask.shape = <<1, 1, 2>>
    /\ module.training /\ rng > calls[2].rng /\ calls[2].rng > 0
    /\ env = calls[1].env /\ params = calls[1].params

====
